---- MODULE Spec2Model ----
(***************************************************************************)
(* A model of the rust_raytracer renderer (src/src/types.rs and            *)
(* src/src/main.rs): the f64 vector algebra, Sphere::hit,                  *)
(* HittableList::hit, the three materials' scatter, Camera::get_ray,       *)
(* ray_color and the sampling loop of render_test_image.                   *)
(*                                                                         *)
(* f64 values are modelled as exact extended rationals <<n, d>> in lowest  *)
(* terms with d >= 0: d > 0 is the finite value n/d, <<1, 0>> is +inf,     *)
(* <<-1, 0>> is -inf and <<0, 0>> is NaN.  The operations follow IEEE-754 *)
(* on these (x/0 = +-inf, 0/0 = NaN, every ordered comparison with NaN is *)
(* false); rounding and the sign of zero are not modelled.  Square roots   *)
(* are taken only of values whose root is rational: the input sets below   *)
(* are chosen so that every root the code takes is exact.                  *)
(***************************************************************************)
EXTENDS Integers, Sequences, FiniteSets, TLC

\* ------------------------------------------------------------------ f64

Abs(n) == IF n < 0 THEN -n ELSE n

Sign(n) == IF n < 0 THEN -1 ELSE IF n > 0 THEN 1 ELSE 0

RECURSIVE Gcd(_, _)
Gcd(a, b) == IF b = 0 THEN a ELSE Gcd(b, a % b)

\* The f64 with numerator n over denominator d (d = 0: an infinity or NaN).
F(n, d) ==
    IF d = 1 THEN <<n, 1>>
    ELSE IF d = 0 THEN <<Sign(n), 0>>
    ELSE LET g == Gcd(Abs(n), Abs(d))
             s == IF d < 0 THEN -1 ELSE 1
         IN  <<(s * n) \div g, (s * d) \div g>>

NaN == <<0, 0>>
INFINITY == <<1, 0>>
Zero == <<0, 1>>
One == <<1, 1>>
Two == <<2, 1>>
Half == <<1, 2>>

IsNaN(a) == a = NaN
IsInf(a) == a[2] = 0 /\ a[1] # 0
IsFinite(a) == a[2] > 0

FNeg(a) == <<-a[1], a[2]>>

FAdd(a, b) ==
    IF a[2] = 1 /\ b[2] = 1 THEN <<a[1] + b[1], 1>>
    ELSE IF IsNaN(a) \/ IsNaN(b) THEN NaN
    ELSE IF IsInf(a) THEN (IF IsInf(b) /\ b # a THEN NaN ELSE a)
    ELSE IF IsInf(b) THEN b
    ELSE F(a[1] * b[2] + b[1] * a[2], a[2] * b[2])

FSub(a, b) == FAdd(a, FNeg(b))

FMul(a, b) == F(a[1] * b[1], a[2] * b[2])

FDiv(a, b) ==
    IF b[1] < 0 THEN F(-(a[1] * b[2]), -(a[2] * b[1]))
    ELSE F(a[1] * b[2], a[2] * b[1])

\* a < b on f64: false whenever an operand is NaN.
FLt(a, b) ==
    IF IsNaN(a) \/ IsNaN(b) THEN FALSE
    ELSE IF a[2] = 0 /\ b[2] = 0 THEN a[1] < b[1]
    ELSE a[1] * b[2] < b[1] * a[2]

FGt(a, b) == FLt(b, a)

\* a <= b on f64: false whenever an operand is NaN.
FLe(a, b) == ~IsNaN(a) /\ ~IsNaN(b) /\ ~FLt(b, a)

FGe(a, b) == FLe(b, a)

FAbs(a) == <<Abs(a[1]), a[2]>>

\* f64::min: the other operand when one is NaN.
FMin(a, b) ==
    IF IsNaN(a) THEN b ELSE IF IsNaN(b) THEN a ELSE IF FLt(b, a) THEN b ELSE a

\* The integer square root: the largest k with k * k <= n.
RECURSIVE ISqrt(_)
ISqrt(n) ==
    IF n < 2 THEN n
    ELSE LET s == 2 * ISqrt(n \div 4)
         IN  IF (s + 1) * (s + 1) <= n THEN s + 1 ELSE s

IsSquare(n) == n >= 0 /\ ISqrt(n) * ISqrt(n) = n

\* The values whose f64::sqrt is represented exactly here.
ExactSqrt(a) == a[2] = 0 \/ a[1] < 0 \/ (IsSquare(a[1]) /\ IsSquare(a[2]))

\* f64::sqrt: NaN of a negative value or NaN, +inf of +inf.
FSqrt(a) ==
    IF a[1] < 0 THEN NaN
    ELSE IF a[2] = 0 THEN a
    ELSE F(ISqrt(a[1]), ISqrt(a[2]))

\* ----------------------------------------------------------------- Vec3

Vec3_new(x, y, z) == [x |-> x, y |-> y, z |-> z]

\* A vector with integer components.
IVec(x, y, z) == Vec3_new(F(x, 1), F(y, 1), F(z, 1))

Vec3_zero == IVec(0, 0, 0)

Vec3_one == IVec(1, 1, 1)

VAdd(a, b) == Vec3_new(FAdd(a.x, b.x), FAdd(a.y, b.y), FAdd(a.z, b.z))

VSub(a, b) == Vec3_new(FSub(a.x, b.x), FSub(a.y, b.y), FSub(a.z, b.z))

VMul(a, b) == Vec3_new(FMul(a.x, b.x), FMul(a.y, b.y), FMul(a.z, b.z))

VScale(a, k) == Vec3_new(FMul(a.x, k), FMul(a.y, k), FMul(a.z, k))

VDiv(a, k) == Vec3_new(FDiv(a.x, k), FDiv(a.y, k), FDiv(a.z, k))

VNeg(a) == Vec3_new(FNeg(a.x), FNeg(a.y), FNeg(a.z))

length_squared(a) ==
    FAdd(FAdd(FMul(a.x, a.x), FMul(a.y, a.y)), FMul(a.z, a.z))

length(a) == FSqrt(length_squared(a))

dot(a, b) == FAdd(FAdd(FMul(a.x, b.x), FMul(a.y, b.y)), FMul(a.z, b.z))

NearZeroS == F(1, 100000000)

near_zero(a) ==
    /\ FLt(FAbs(a.x), NearZeroS)
    /\ FLt(FAbs(a.y), NearZeroS)
    /\ FLt(FAbs(a.z), NearZeroS)

reflect(v, n) == VSub(v, VScale(VScale(n, Two), dot(v, n)))

refract(uv, n, etai_over_etat) ==
    LET cos_theta == FNeg(FMin(dot(uv, n), One))
        r_out_perp == VScale(VAdd(uv, VScale(n, cos_theta)), etai_over_etat)
        r_out_parallel ==
            VScale(n, FSqrt(FAbs(FSub(One, length_squared(r_out_perp)))))
    IN  VAdd(r_out_perp, r_out_parallel)

unit_vector(a) == VDiv(a, length(a))

\* ------------------------------------------------------------------ Ray

Ray(origin, direction) == [origin |-> origin, direction |-> direction]

at(r, t) == VAdd(r.origin, VScale(r.direction, t))

\* ------------------------------------------------------------ Materials

\* A material (Arc<dyn Material>): kind selects the scatter implementation.
Mat(kind, albedo, fuzz, ir) ==
    [kind |-> kind, albedo |-> albedo, fuzz |-> fuzz, ir |-> ir]

\* Option::None of HitRecord.mat_ptr.
NoMat == Mat("none", Vec3_zero, Zero, Zero)

LambertianMaterial_new(albedo) == Mat("lambertian", albedo, Zero, Zero)

MetalMaterial_new(albedo, fuzz) == Mat("metal", albedo, fuzz, Zero)

DielectricMaterial_new(ir) == Mat("dielectric", Vec3_zero, Zero, ir)

\* ------------------------------------------------------------ HitRecord

HitRecord(p, normal, mat_ptr, t, front_face) ==
    [p |-> p, normal |-> normal, mat_ptr |-> mat_ptr, t |-> t,
     front_face |-> front_face]

HitRecord_blank == HitRecord(Vec3_zero, Vec3_zero, NoMat, Zero, FALSE)

\* The normal never flipped: front_face is set, the outward normal kept.
set_face_normal_unflipped(self, ray, outward_normal) ==
    [self EXCEPT !.front_face = FLt(dot(ray.direction, outward_normal), Zero),
                 !.normal = outward_normal]

set_face_normal(self, ray, outward_normal) ==
    LET front_face == FLt(dot(ray.direction, outward_normal), Zero)
    IN  [self EXCEPT !.front_face = front_face,
                     !.normal = IF front_face THEN outward_normal
                                ELSE VNeg(outward_normal)]

\* --------------------------------------------------------------- Sphere

Sphere_new(center, radius, mat_ptr) ==
    [center |-> center, radius |-> radius, mat_ptr |-> mat_ptr]

\* half_b * half_b - a * c of Sphere::hit.
Sphere_discriminant(self, ray) ==
    LET oc == VSub(ray.origin, self.center)
        a == length_squared(ray.direction)
        half_b == dot(oc, ray.direction)
        c == FSub(length_squared(oc), FMul(self.radius, self.radius))
    IN  FSub(FMul(half_b, half_b), FMul(a, c))

\* The smaller root, (-half_b - sqrtd) / a.
Sphere_root1(self, ray) ==
    LET oc == VSub(ray.origin, self.center)
        a == length_squared(ray.direction)
        half_b == dot(oc, ray.direction)
        sqrtd == FSqrt(Sphere_discriminant(self, ray))
    IN  FDiv(FSub(FNeg(half_b), sqrtd), a)

\* The larger root, (-half_b + sqrtd) / a.
Sphere_root2(self, ray) ==
    LET oc == VSub(ray.origin, self.center)
        a == length_squared(ray.direction)
        half_b == dot(oc, ray.direction)
        sqrtd == FSqrt(Sphere_discriminant(self, ray))
    IN  FDiv(FAdd(FNeg(half_b), sqrtd), a)

\* The comparison inverted: `discriminant > 0.0`.
DiscriminantNegative_inverted(discriminant) == FLt(Zero, discriminant)

\* `discriminant < 0.0`: the ray misses the sphere.
DiscriminantNegative(discriminant) == FLt(discriminant, Zero)

\* The upper bound made exclusive: `root < t_min || t_max <= root`.
RootRejected_exclusive(root, tmin, tmax) == FLt(root, tmin) \/ FLe(tmax, root)

\* `root < t_min || t_max < root`: the root is rejected.
RootRejected(root, tmin, tmax) == FLt(root, tmin) \/ FLt(tmax, root)

\* The record Sphere::hit writes for an accepted root.
Sphere_record(self, ray, root, rec_in) ==
    LET p == at(ray, root)
        rec1 == [rec_in EXCEPT !.t = root, !.p = p,
                               !.normal = VDiv(VSub(p, self.center), self.radius)]
        outward_normal == VDiv(VSub(p, self.center), self.radius)
        rec2 == set_face_normal(rec1, ray, outward_normal)
    IN  [rec2 EXCEPT !.mat_ptr = self.mat_ptr]

\* Sphere::hit: the returned bool and the record after the call.
Sphere_hit(self, ray, tmin, tmax, rec_in) ==
    LET oc == VSub(ray.origin, self.center)
        a == length_squared(ray.direction)
        half_b == dot(oc, ray.direction)
        c == FSub(length_squared(oc), FMul(self.radius, self.radius))
        discriminant == FSub(FMul(half_b, half_b), FMul(a, c))
        sqrtd == FSqrt(discriminant)
        root1 == FDiv(FSub(FNeg(half_b), sqrtd), a)
        root2 == FDiv(FAdd(FNeg(half_b), sqrtd), a)
    IN  IF DiscriminantNegative(discriminant)
        THEN [ret |-> FALSE, rec |-> rec_in]
        ELSE IF RootRejected(root1, tmin, tmax)
             THEN IF RootRejected(root2, tmin, tmax)
                  THEN [ret |-> FALSE, rec |-> rec_in]
                  ELSE [ret |-> TRUE,
                        rec |-> Sphere_record(self, ray, root2, rec_in)]
             ELSE [ret |-> TRUE,
                   rec |-> Sphere_record(self, ray, root1, rec_in)]

\* --------------------------------------------------------- HittableList

\* No narrowing: every member is tested against the caller's t_max.
MemberUpperBound_tmax(tmax, closest_so_far) == tmax

\* The upper bound HittableList::hit passes to a member: closest_so_far.
MemberUpperBound(tmax, closest_so_far) == closest_so_far

\* The loop of HittableList::hit from member k on.
RECURSIVE HittableList_loop(_, _, _, _, _, _, _, _)
HittableList_loop(objects, k, ray, tmin, tmax, closest_so_far, hit_anything, rec_in) ==
    IF k > Len(objects) THEN [ret |-> hit_anything, rec |-> rec_in]
    ELSE LET temp == Sphere_hit(objects[k], ray, tmin,
                                MemberUpperBound(tmax, closest_so_far),
                                HitRecord_blank)
         IN  IF temp.ret
             THEN HittableList_loop(objects, k + 1, ray, tmin, tmax,
                                    temp.rec.t, TRUE, temp.rec)
             ELSE HittableList_loop(objects, k + 1, ray, tmin, tmax,
                                    closest_so_far, hit_anything, rec_in)

HittableList_hit(objects, ray, tmin, tmax, rec_in) ==
    HittableList_loop(objects, 1, ray, tmin, tmax, tmax, FALSE, rec_in)

\* -------------------------------------------------------------- scatter

\* Vec3::random_in_unit_sphere rejects the sample p: `p.length_squared() >= 1.0`.
SampleRejected(p) == FGe(length_squared(p), One)

\* Vec3::random_unit_vector, given the point random_in_unit_sphere returned.
random_unit_vector(p) == unit_vector(p)

\* What a scatter call gives back: the bool and the two out-parameters.
ScatterResult(b, attenuation, scattered) ==
    [ret |-> b, attenuation |-> attenuation, scattered |-> scattered]

\* LambertianMaterial::scatter; pts are the points its calls of
\* random_in_unit_sphere return, in order.
Lambertian_scatter(self, r_in, hit, pts) ==
    LET scatter_direction1 == VAdd(hit.normal, random_unit_vector(pts[1]))
        scatter_direction ==
            IF near_zero(scatter_direction1) THEN hit.normal
            ELSE VAdd(hit.normal, random_unit_vector(pts[2]))
    IN  ScatterResult(TRUE, self.albedo, Ray(hit.p, scatter_direction))

\* The comparison made non-strict: `scattered.direction.dot(rec.normal) >= 0.0`.
MetalScatters_nonstrict(direction, normal) == FGe(dot(direction, normal), Zero)

\* `scattered.direction.dot(rec.normal) > 0.0`.
MetalScatters(direction, normal) == FGt(dot(direction, normal), Zero)

\* MetalMaterial::scatter.
Metal_scatter(self, r_in, hit, pts) ==
    LET reflected == reflect(unit_vector(r_in.direction), hit.normal)
        direction == VAdd(reflected, VScale(pts[1], self.fuzz))
    IN  ScatterResult(MetalScatters(direction, hit.normal), self.albedo,
                      Ray(hit.p, direction))

\* DielectricMaterial::scatter.
Dielectric_scatter(self, r_in, hit, pts) ==
    LET refraction_ratio == IF hit.front_face THEN FDiv(One, self.ir) ELSE self.ir
        unit_direction == unit_vector(r_in.direction)
        refracted == refract(unit_direction, hit.normal, refraction_ratio)
    IN  ScatterResult(TRUE, Vec3_one, Ray(hit.p, refracted))

\* mat.scatter(r_in, &rec, &mut attenuation, &mut scattered, rng): the
\* dynamic dispatch over the material's kind.
Material_scatter(self, r_in, hit, pts) ==
    CASE self.kind = "lambertian" -> Lambertian_scatter(self, r_in, hit, pts)
      [] self.kind = "metal" -> Metal_scatter(self, r_in, hit, pts)
      [] self.kind = "dielectric" -> Dielectric_scatter(self, r_in, hit, pts)

\* Whether the scatter call still has a random_in_unit_sphere call to make
\* after the points pts.
MoreDraws(self, hit, pts) ==
    CASE self.kind = "lambertian" ->
             IF Len(pts) = 0 THEN TRUE
             ELSE /\ Len(pts) = 1
                  /\ ~near_zero(VAdd(hit.normal, random_unit_vector(pts[1])))
      [] self.kind = "metal" -> Len(pts) = 0
      [] self.kind = "dielectric" -> FALSE

\* --------------------------------------------------------------- Camera

Camera_default_camera ==
    LET aspect_ratio == F(16, 9)
        viewport_height == Two
        viewport_width == FMul(aspect_ratio, viewport_height)
        focal_length == One
        origin == Vec3_zero
        horizontal == Vec3_new(viewport_width, Zero, Zero)
        vertical == Vec3_new(Zero, viewport_height, Zero)
    IN  [origin |-> origin,
         lower_left_corner |->
             VSub(VSub(VSub(origin, VDiv(horizontal, Two)), VDiv(vertical, Two)),
                  Vec3_new(Zero, Zero, focal_length)),
         horizontal |-> horizontal,
         vertical |-> vertical]

get_ray(self, cu, cv) ==
    Ray(self.origin,
        VSub(VAdd(VAdd(self.lower_left_corner, VScale(self.horizontal, cu)),
                  VScale(self.vertical, cv)),
             self.origin))

\* ------------------------------------------------------------ ray_color

\* The interval ray_color passes to world.hit: [0.0001, INFINITY].
RAY_T_MIN == F(1, 10000)

\* Off by one: `depth < 0`.
BudgetExhausted_strict(d) == d < 0

\* `depth <= 0`: the bounce budget is exhausted.
BudgetExhausted(d) == d <= 0

\* The recursive call made with the caller's own depth.
NextDepth_same(d) == d

\* The depth of the recursive call: depth - 1.
NextDepth(d) == d - 1

\* The colour of a ray that misses the scene.
SkyColor(ray) ==
    LET unit_direction == unit_vector(ray.direction)
        t == FMul(Half, FAdd(unit_direction.y, One))
    IN  VAdd(VScale(Vec3_one, FSub(One, t)),
             VScale(Vec3_new(Half, F(7, 10), One), t))

\* The locals of a ray_color activation that is waiting for its recursive call.
Frame(ray, d, hit, att) ==
    [r |-> ray, depth |-> d, rec |-> hit, attenuation |-> att]

\* ---------------------------------------------------------------- State

VARIABLES
    pc,          \* the position of the running operation
    world,       \* HittableList.objects: the spheres in insertion order
    r,           \* the ray of the current call
    t_min,       \* the interval's lower bound of the current hit call
    t_max,       \* the interval's upper bound of the current hit call
    rec0,        \* the hit record as it was when the call was made
    rec,         \* the hit record (after the call, once pc says it returned)
    ret,         \* the bool the last hit or scatter call returned
    attenuation, \* the attenuation out-parameter of scatter
    scattered,   \* the scattered-ray out-parameter of scatter
    pts,         \* the points random_in_unit_sphere returned to this scatter
    tick,        \* flips when random_in_unit_sphere rejects a sample
    r0,          \* the ray of the outermost ray_color call
    depth0,      \* the depth of the outermost ray_color call
    depth,       \* the depth of the current ray_color call
    stack,       \* the activations waiting for their recursive call
    color,       \* the colour the last ray_color call returned
    hits,        \* the number of world.hit calls made so far
    j,           \* the scanline of the render loop
    i,           \* the column of the render loop
    s,           \* the samples taken of pixel (i, j)
    u,           \* the horizontal coordinate of the last sample
    v            \* the vertical coordinate of the last sample

vars == <<pc, world, r, t_min, t_max, rec0, rec, ret, attenuation, scattered,
          pts, tick, r0, depth0, depth, stack, color, hits, j, i, s, u, v>>

hitVars == <<t_min, t_max, rec0>>

scatterVars == <<attenuation, scattered, pts, tick>>

colorVars == <<r0, depth0, depth, stack, color, hits>>

renderVars == <<j, i, s, u, v>>

NoRay == Ray(Vec3_zero, Vec3_zero)

\* The variables an operation does not use, at rest.
HitIdle == t_min = Zero /\ t_max = Zero /\ rec0 = HitRecord_blank

ScatterIdle ==
    attenuation = Vec3_zero /\ scattered = NoRay /\ pts = <<>> /\ tick = 0

RenderIdle == j = 0 /\ i = 0 /\ s = 0 /\ u = Zero /\ v = Zero

ColorIdle ==
    /\ r0 = NoRay
    /\ depth0 = 0
    /\ depth = 0
    /\ stack = <<>>
    /\ color = Vec3_zero
    /\ hits = 0

\* ---------------------------------------------------- Bounded input sets

\* The longest scene (number of spheres) the hit specification draws.
MaxSpheres == 3

MatGround == LambertianMaterial_new(Vec3_new(F(4, 5), F(4, 5), Zero))
MatCenter == LambertianMaterial_new(Vec3_new(F(7, 10), F(3, 10), F(3, 10)))
MatLeft == MetalMaterial_new(Vec3_new(F(4, 5), F(4, 5), F(4, 5)), Half)
MatRight == MetalMaterial_new(Vec3_new(F(4, 5), F(3, 5), F(1, 5)), One)
MatGlass == DielectricMaterial_new(F(3, 2))

\* Spheres on the integer grid: two that start at the same depth along the
\* -z axis, one around the origin, one off the axis.
HitSpheres ==
    { Sphere_new(IVec(0, 0, -3), One, MatCenter),
      Sphere_new(IVec(0, 0, -4), Two, MatLeft),
      Sphere_new(IVec(0, 0, -1), Two, MatGlass),
      Sphere_new(IVec(0, 0, -7), One, MatRight),
      Sphere_new(IVec(0, 3, -4), One, MatGround) }

RECURSIVE SeqsUpTo(_, _)
SeqsUpTo(S, n) ==
    IF n = 0 THEN {<<>>}
    ELSE LET shorter == SeqsUpTo(S, n - 1)
         IN  shorter \cup {Append(q, x) : q \in shorter, x \in S}

HitOrigins == {IVec(0, 0, 0), IVec(0, 0, -3)}

\* Directions, not normalized; the zero vector is the degenerate ray.
HitDirections ==
    {IVec(0, 0, -1), IVec(0, 0, 1), IVec(0, 0, -2), IVec(0, 3, -4),
     IVec(0, 0, 0)}

HitTMins == {F(1, 10000), F(3, 1)}

HitTMaxs == {INFINITY, F(3, 1)}

HitRecords ==
    {HitRecord_blank,
     HitRecord(IVec(1, 2, 3), IVec(0, 1, 0), MatRight, F(7, 1), TRUE)}

\* Every square root Sphere::hit takes on these inputs is exact.
HitInputsExact(objects, ray) ==
    \A k \in 1..Len(objects) : ExactSqrt(Sphere_discriminant(objects[k], ray))

\* ------------------------------------------------- Specification SpecHit
\* Sphere::hit and HittableList::hit applied to bounded inputs.

InitHit ==
    /\ pc = "ready"
    /\ world \in SeqsUpTo(HitSpheres, MaxSpheres)
    /\ r \in {Ray(o, d) : o \in HitOrigins, d \in HitDirections}
    /\ HitInputsExact(world, r)
    /\ t_min \in HitTMins
    /\ t_max \in HitTMaxs
    /\ FLe(t_min, t_max)
    /\ rec0 \in HitRecords
    /\ rec = rec0
    /\ ret = FALSE
    /\ ScatterIdle
    /\ ColorIdle
    /\ RenderIdle

\* One member's hit, called directly: world[1].hit(r, t_min, t_max, &mut rec).
CallSphereHit ==
    /\ pc = "ready"
    /\ Len(world) >= 1
    /\ LET out == Sphere_hit(world[1], r, t_min, t_max, rec)
       IN  /\ ret' = out.ret
           /\ rec' = out.rec
    /\ pc' = "sphere_hit"
    /\ UNCHANGED <<world, r, hitVars, scatterVars, colorVars,
                   renderVars>>

\* world.hit(r, t_min, t_max, &mut rec).
CallListHit ==
    /\ pc = "ready"
    /\ LET out == HittableList_hit(world, r, t_min, t_max, rec)
       IN  /\ ret' = out.ret
           /\ rec' = out.rec
    /\ pc' = "list_hit"
    /\ UNCHANGED <<world, r, hitVars, scatterVars, colorVars,
                   renderVars>>

NextHit == CallSphereHit \/ CallListHit

SpecHit == InitHit /\ [][NextHit]_vars

\* ----------------------------------------------- Specification SpecColor
\* ray_color(r0, &world, depth0, rng), one step per branch of its body and
\* per sample of a random_in_unit_sphere loop.

\* The deepest outermost call the colour specification draws.
MaxDepth0 == 2

\* The longest scene the colour specification draws.
MaxColorSpheres == 2

\* Spheres on the z axis, one per material, and a metal sphere that the
\* oblique ray (0, 3, -4) strikes where its normal is (0, 0, 1).
ColorSpheres ==
    { Sphere_new(IVec(0, 0, -1), Half, MatCenter),
      Sphere_new(IVec(0, 0, -3), Half, MatLeft),
      Sphere_new(IVec(0, 0, 2), Half, MatGlass),
      Sphere_new(IVec(0, 3, -5), One, MatRight) }

\* The camera's central ray, its opposite, and an oblique ray.
ColorRays ==
    { get_ray(Camera_default_camera, Half, Half),
      Ray(Vec3_zero, IVec(0, 0, 1)),
      Ray(Vec3_zero, IVec(0, 3, -4)) }

\* The samples Vec3::random(-1.0, 1.0) returns: the centre, points on the z
\* axis inside the unit sphere, one on its surface and a corner of the cube.
RandCube ==
    { IVec(0, 0, 0), Vec3_new(Zero, Zero, Half), Vec3_new(Zero, Zero, F(-1, 2)),
      Vec3_new(Zero, Zero, F(-4, 5)), IVec(0, 0, 1), IVec(1, 1, 1) }

\* Every square root taken on behalf of this ray is exact: its length, and
\* the discriminant against every sphere.
RayExact(objects, ray) ==
    /\ ExactSqrt(length_squared(ray.direction))
    /\ HitInputsExact(objects, ray)

\* The points pts complete a scatter call whose scattered ray is exact.
DrawExact(objects, self, r_in, hit, points) ==
    IF MoreDraws(self, hit, points) THEN TRUE
    ELSE RayExact(objects, Material_scatter(self, r_in, hit, points).scattered)

WorldHit(objects, ray) ==
    HittableList_hit(objects, ray, RAY_T_MIN, INFINITY, HitRecord_blank)

InitColor ==
    /\ pc = "call"
    /\ world \in SeqsUpTo(ColorSpheres, MaxColorSpheres)
    /\ r0 \in ColorRays
    /\ RayExact(world, r0)
    /\ r = r0
    /\ depth0 \in -1..MaxDepth0
    /\ depth = depth0
    /\ stack = <<>>
    /\ color = Vec3_zero
    /\ hits = 0
    /\ rec = HitRecord_blank
    /\ ret = FALSE
    /\ t_min = RAY_T_MIN
    /\ t_max = INFINITY
    /\ rec0 = HitRecord_blank
    /\ ScatterIdle
    /\ RenderIdle

\* `if depth <= 0 { return Color::zero(); }`
DepthExhausted ==
    /\ pc = "call"
    /\ BudgetExhausted(depth)
    /\ color' = Vec3_zero
    /\ pc' = "return"
    /\ UNCHANGED <<world, r, hitVars, rec, ret, scatterVars, r0, depth0, depth,
                   stack, hits,
                   renderVars>>

\* world.hit returns false: the sky gradient.
Miss ==
    /\ pc = "call"
    /\ ~BudgetExhausted(depth)
    /\ ~WorldHit(world, r).ret
    /\ hits' = hits + 1
    /\ color' = SkyColor(r)
    /\ pc' = "return"
    /\ UNCHANGED <<world, r, hitVars, rec, ret, scatterVars, r0, depth0, depth,
                   stack,
                   renderVars>>

\* world.hit returns true: the struck material's scatter is called, or
\* black is returned when the record holds no material.
Hit ==
    /\ pc = "call"
    /\ ~BudgetExhausted(depth)
    /\ WorldHit(world, r).ret
    /\ hits' = hits + 1
    /\ rec' = WorldHit(world, r).rec
    /\ IF rec'.mat_ptr = NoMat
       THEN color' = Vec3_zero /\ pc' = "return"
       ELSE color' = color /\ pc' = "scatter"
    /\ UNCHANGED <<world, r, hitVars, ret, scatterVars, r0, depth0, depth, stack,
                   renderVars>>

\* random_in_unit_sphere draws a sample and rejects it: `continue`.
DrawReject ==
    /\ pc = "scatter"
    /\ MoreDraws(rec.mat_ptr, rec, pts)
    /\ \E p \in RandCube : SampleRejected(p)
    /\ tick' = 1 - tick
    /\ UNCHANGED <<pc, world, r, hitVars, rec, ret, attenuation, scattered, pts,
                   colorVars,
                   renderVars>>

\* random_in_unit_sphere draws a sample and returns it.
DrawAccept ==
    /\ pc = "scatter"
    /\ MoreDraws(rec.mat_ptr, rec, pts)
    /\ \E p \in RandCube :
          /\ ~SampleRejected(p)
          /\ DrawExact(world, rec.mat_ptr, r, rec, Append(pts, p))
          /\ pts' = Append(pts, p)
    /\ tick' = 0
    /\ UNCHANGED <<pc, world, r, hitVars, rec, ret, attenuation, scattered,
                   colorVars,
                   renderVars>>

\* mat.scatter returns, its random points drawn.
Scatter ==
    /\ pc = "scatter"
    /\ ~MoreDraws(rec.mat_ptr, rec, pts)
    /\ LET out == Material_scatter(rec.mat_ptr, r, rec, pts)
       IN  /\ ret' = out.ret
           /\ attenuation' = out.attenuation
           /\ scattered' = out.scattered
    /\ pc' = "scattered"
    /\ UNCHANGED <<world, r, hitVars, rec, pts, tick, colorVars,
                   renderVars>>

\* `return attenuation * ray_color(scattered, world, depth - 1, rng)`: the call.
Recurse ==
    /\ pc = "scattered"
    /\ ret
    /\ stack' = Append(stack, Frame(r, depth, rec, attenuation))
    /\ r' = scattered
    /\ depth' = NextDepth(depth)
    /\ rec' = HitRecord_blank
    /\ ret' = FALSE
    /\ attenuation' = Vec3_zero
    /\ scattered' = NoRay
    /\ pts' = <<>>
    /\ pc' = "call"
    /\ UNCHANGED <<world, hitVars, tick, r0, depth0, color, hits,
                   renderVars>>

\* scatter returned false: `Color::zero()`.
Absorbed ==
    /\ pc = "scattered"
    /\ ~ret
    /\ color' = Vec3_zero
    /\ pc' = "return"
    /\ UNCHANGED <<world, r, hitVars, rec, ret, scatterVars, r0, depth0, depth,
                   stack, hits,
                   renderVars>>

\* The recursive call returns to its caller, which multiplies by attenuation.
Return ==
    /\ pc = "return"
    /\ stack # <<>>
    /\ LET f == stack[Len(stack)]
       IN  /\ color' = VMul(f.attenuation, color)
           /\ scattered' = r
           /\ r' = f.r
           /\ depth' = f.depth
           /\ rec' = f.rec
           /\ attenuation' = f.attenuation
    /\ ret' = TRUE
    /\ pts' = <<>>
    /\ stack' = SubSeq(stack, 1, Len(stack) - 1)
    /\ UNCHANGED <<pc, world, hitVars, tick, r0, depth0, hits,
                   renderVars>>

\* The outermost call returns.
Finish ==
    /\ pc = "return"
    /\ stack = <<>>
    /\ pc' = "done"
    /\ UNCHANGED <<world, r, hitVars, rec, ret, scatterVars, colorVars,
                   renderVars>>

NextColor ==
    \/ DepthExhausted
    \/ Miss
    \/ Hit
    \/ DrawReject
    \/ DrawAccept
    \/ Scatter
    \/ Recurse
    \/ Absorbed
    \/ Return
    \/ Finish

SpecColor == InitColor /\ [][NextColor]_vars

\* A step of ray_color is possible in every state but the one where the
\* outermost call has returned.
Running == []<><<NextColor>>_vars \/ <>[](pc = "done")

\* The program keeps running: a step is taken whenever one is possible.
\* Running is WF_vars(NextColor) with ENABLED <<NextColor>>_vars written
\* out as pc # "done".
FairColor == SpecColor /\ WF_vars(Finish) /\ Running

\* Every square root the run takes is exact.
ColorExact ==
    /\ pc = "call" => RayExact(world, r)
    /\ (pc = "scatter" /\ rec.mat_ptr.kind = "dielectric") =>
           LET ratio == IF rec.front_face THEN FDiv(One, rec.mat_ptr.ir)
                        ELSE rec.mat_ptr.ir
               uv == unit_vector(r.direction)
               cos_theta == FNeg(FMin(dot(uv, rec.normal), One))
               perp == VScale(VAdd(uv, VScale(rec.normal, cos_theta)), ratio)
           IN  ExactSqrt(FAbs(FSub(One, length_squared(perp))))

\* ---------------------------------------------- Specification SpecRender
\* The sampling loop of render_test_image: scanlines from the top one down,
\* columns from the left, and for every pixel its samples.  Each sample's
\* ray is handed to ray_color (specification SpecColor); the colour it
\* returns is accumulated and written, which the loop's control does not read.
\* The loop is followed through its first MaxScanlines scanlines and through
\* its last MaxScanlines scanlines, every column of each.

IMAGE_WIDTH == 400

IMAGE_HEIGHT == 225

\* The samples taken of each pixel (SAMPLES_PER_PIXEL, 100 in the source).
MaxSamples == 1

\* The scanlines followed from the top of the image and to its bottom.
MaxScanlines == 2

\* The scanlines the loop is followed through.
Followed(row) == row >= IMAGE_HEIGHT - MaxScanlines \/ row < MaxScanlines

\* Values rng.gen_range(0.0..=1.0) can return: both ends and one between.
Jitters == {Zero, Half, One}

\* Divides by the pixel count instead of the pixel count less one.
JitterDivisor_count(n) == F(n, 1)

\* `(IMAGE_WIDTH - 1) as f64`
JitterDivisor(n) == F(n - 1, 1)

\* `(i as f64 + rng.gen_range(0.0..=1.0)) / (IMAGE_WIDTH - 1) as f64`
Jittered(k, jitter, n) == FDiv(FAdd(F(k, 1), jitter), JitterDivisor(n))

\* The loop at the start of the top scanline, or at the start of the first
\* of its last MaxScanlines scanlines.
InitRender ==
    /\ pc = "render"
    /\ j \in {IMAGE_HEIGHT - 1, MaxScanlines - 1}
    /\ i = 0
    /\ s = 0
    /\ u = Zero
    /\ v = Zero
    /\ world = <<>>
    /\ r = NoRay
    /\ rec = HitRecord_blank
    /\ ret = FALSE
    /\ HitIdle
    /\ ScatterIdle
    /\ ColorIdle

\* One iteration of `for _s in 0..SAMPLES_PER_PIXEL`.
Sample ==
    /\ pc = "render"
    /\ s < MaxSamples
    /\ \E ju, jv \in Jitters :
          /\ u' = Jittered(i, ju, IMAGE_WIDTH)
          /\ v' = Jittered(j, jv, IMAGE_HEIGHT)
    /\ r' = get_ray(Camera_default_camera, u', v')
    /\ s' = s + 1
    /\ UNCHANGED <<pc, world, hitVars, rec, ret, scatterVars, colorVars, j, i>>

\* write_color, and the next iteration of `for i in 0..IMAGE_WIDTH`; the
\* sample's u, v and r go out of scope.
NextPixel ==
    /\ pc = "render"
    /\ s = MaxSamples
    /\ i + 1 < IMAGE_WIDTH
    /\ i' = i + 1
    /\ s' = 0
    /\ u' = Zero
    /\ v' = Zero
    /\ r' = NoRay
    /\ UNCHANGED <<pc, world, hitVars, rec, ret, scatterVars, colorVars, j>>

\* write_color, and the next iteration of `for j in (0..IMAGE_HEIGHT).rev()`.
NextScanline ==
    /\ pc = "render"
    /\ s = MaxSamples
    /\ i + 1 = IMAGE_WIDTH
    /\ j > 0
    /\ Followed(j - 1)
    /\ j' = j - 1
    /\ i' = 0
    /\ s' = 0
    /\ u' = Zero
    /\ v' = Zero
    /\ r' = NoRay
    /\ UNCHANGED <<pc, world, hitVars, rec, ret, scatterVars, colorVars>>

\* write_color of the last pixel: "Operation complete."
RenderDone ==
    /\ pc = "render"
    /\ s = MaxSamples
    /\ i + 1 = IMAGE_WIDTH
    /\ j = 0
    /\ pc' = "rendered"
    /\ UNCHANGED <<world, r, hitVars, rec, ret, scatterVars, colorVars,
                   renderVars>>

NextRender ==
    \/ Sample
    \/ NextPixel
    \/ NextScanline
    \/ RenderDone

SpecRender == InitRender /\ [][NextRender]_vars

\* ------------------------------------------------ Claims under SpecHit

\* The ray's direction is neither zero nor NaN nor infinite: a = |d|^2 is a
\* positive finite number.
ProperDirection == FGt(length_squared(r.direction), Zero)
                   /\ IsFinite(length_squared(r.direction))

\* root lies in [t_min, t_max].
InInterval(root) == FLe(t_min, root) /\ FLe(root, t_max)

\* What member k reports on its own for [t_min, t_max].
Solo(k) == Sphere_hit(world[k], r, t_min, t_max, HitRecord_blank)

Hitters == {k \in 1..Len(world) : Solo(k).ret}

\* C1: HittableList.hit returns true iff some member reports a hit within
\* [t_min, t_max]; then the record's t is the least t any member reports on
\* its own (it is one member's t and no member reports a smaller one), and
\* the record's material is that of a member reporting that t.
C1_ListNearest ==
    pc = "list_hit" =>
        /\ ret <=> Hitters # {}
        /\ ret => /\ \A k \in Hitters : ~FLt(Solo(k).rec.t, rec.t)
                  /\ \E k \in Hitters : /\ Solo(k).rec.t = rec.t
                                        /\ Solo(k).rec.mat_ptr = rec.mat_ptr

\* C1's case: two members hit at different distances, the nearer one was
\* inserted first, and its material is the one bound to the record.
C1_Witness ==
    /\ pc = "list_hit"
    /\ ret
    /\ \E m, k \in Hitters :
          /\ m < k
          /\ FLt(Solo(m).rec.t, Solo(k).rec.t)
          /\ rec.t = Solo(m).rec.t
          /\ rec.mat_ptr = world[m].mat_ptr
          /\ world[k].mat_ptr # world[m].mat_ptr

\* The statement of C4 for the sphere world[1].
RootSelection ==
    LET root1 == Sphere_root1(world[1], r)
        root2 == Sphere_root2(world[1], r)
    IN  /\ ret <=> (InInterval(root1) \/ InInterval(root2))
        /\ ret => /\ rec.t = (IF InInterval(root1) THEN root1 ELSE root2)
                  /\ InInterval(rec.t)
                  /\ \A x \in {root1, root2} : InInterval(x) => FLe(rec.t, x)

\* C4 (as claimed): for every ray with non-negative discriminant, Sphere.hit
\* returns true iff one of the two roots lies in [t_min, t_max], and then t
\* is the smaller root if it lies in the interval, else the larger; t always
\* lies in [t_min, t_max].
C4_AsClaimed ==
    (pc = "sphere_hit" /\ FGe(Sphere_discriminant(world[1], r), Zero))
        => RootSelection

\* C4 (amended): the same, for every ray whose direction is not degenerate.
C4_RootSelection ==
    (/\ pc = "sphere_hit"
     /\ ProperDirection
     /\ FGe(Sphere_discriminant(world[1], r), Zero))
        => RootSelection

\* C4's case: the smaller root is below t_min and the larger one is reported.
C4_Witness ==
    /\ pc = "sphere_hit"
    /\ ProperDirection
    /\ ret
    /\ FLt(Sphere_root1(world[1], r), t_min)
    /\ rec.t = Sphere_root2(world[1], r)

\* C5: with a negative discriminant Sphere.hit returns false and leaves
\* every field of the record as it was before the call.
C5_MissLeavesRecord ==
    (pc = "sphere_hit" /\ FLt(Sphere_discriminant(world[1], r), Zero))
        => (ret = FALSE /\ rec = rec0)

\* C5's case: a miss by negative discriminant with a record that held an
\* earlier hit.
C5_Witness ==
    /\ pc = "sphere_hit"
    /\ FLt(Sphere_discriminant(world[1], r), Zero)
    /\ rec0 # HitRecord_blank
    /\ rec = rec0

\* The spheres the returned record may come from.
Struck == IF pc = "sphere_hit" THEN {1} ELSE 1..Len(world)

\* The statement of C8 for the record of a hit that returned true.
NormalOrientation ==
    /\ FLe(dot(r.direction, rec.normal), Zero)
    /\ \E k \in Struck :
          LET outward_normal ==
                  VDiv(VSub(rec.p, world[k].center), world[k].radius)
          IN  /\ rec.front_face <=> FLt(dot(r.direction, outward_normal), Zero)
              /\ rec.normal = IF rec.front_face THEN outward_normal
                              ELSE VNeg(outward_normal)

\* C8 (as claimed): after every Sphere.hit or HittableList.hit that returns
\* true the normal points against the ray, front_face is true iff
\* dot(direction, outward_normal) < 0, and the normal is the outward normal
\* when front_face is true and its negation otherwise.
C8_AsClaimed ==
    (pc \in {"sphere_hit", "list_hit"} /\ ret) => NormalOrientation

\* C8 (amended): the same, for every ray whose direction is not degenerate.
C8_NormalAgainstRay ==
    (pc \in {"sphere_hit", "list_hit"} /\ ret /\ ProperDirection)
        => NormalOrientation

\* C8's case: a hit from inside a sphere, where the normal was flipped.
C8_Witness ==
    /\ pc \in {"sphere_hit", "list_hit"}
    /\ ret
    /\ ProperDirection
    /\ ~rec.front_face
    /\ FLt(dot(r.direction, rec.normal), Zero)

\* ---------------------------------------------- Claims under SpecColor

\* The call that has just returned had a hit (its record holds a material).
ReturnedAfterHit == pc \in {"return", "done"} /\ rec.mat_ptr # NoMat

\* C2: a ray_color call with depth <= 0, outermost or recursive, returns
\* exactly black, whatever the ray and the scene.
C2_DepthZeroBlack ==
    (pc \in {"return", "done"} /\ depth <= 0) => color = Vec3_zero

\* C2's case: the outermost call has depth 0 and its ray would hit a sphere
\* of the scene, and the call returned.
C2_Witness ==
    /\ pc = "done"
    /\ depth0 = 0
    /\ WorldHit(world, r0).ret
    /\ color = Vec3_zero
    /\ hits = 0

Budget == IF depth0 > 0 THEN depth0 ELSE 0

\* A measure of the work a ray_color run has left.
Variant ==
    CASE pc = "done" -> 0
      [] pc = "return" -> Len(stack) + 1
      [] pc = "scattered" -> 8 * depth + Len(stack) + 3
      [] pc = "scatter" -> 8 * depth + Len(stack) + 6 - Len(pts)
      [] pc = "call" ->
             8 * (IF depth > 0 THEN depth ELSE 0) + Len(stack) + 7

\* A step in which random_in_unit_sphere rejects its sample.
RejectStep == pc = "scatter" /\ pc' = "scatter" /\ pts' = pts

MetalRule ==
    (pc = "scattered" /\ rec.mat_ptr.kind = "metal") =>
        /\ scattered.direction =
               VAdd(reflect(unit_vector(r.direction), rec.normal),
                    VScale(pts[1], rec.mat_ptr.fuzz))
        /\ ret <=> FGt(dot(scattered.direction, rec.normal), Zero)

\* Only a metal's scatter reports absorption.
OnlyMetalAbsorbs == (pc = "scattered" /\ ~ret) => rec.mat_ptr.kind = "metal"

\* C7 (as claimed): metal scatters iff the outgoing direction has strictly
\* positive dot product with the normal, it is the only material that
\* absorbs, and ray_color returns black after a hit only when the struck
\* material is a Metal that absorbed.
C7_AsClaimed ==
    /\ MetalRule
    /\ OnlyMetalAbsorbs
    /\ (ReturnedAfterHit /\ color = Vec3_zero) =>
           (rec.mat_ptr.kind = "metal" /\ ~ret)

\* C7 (amended): the same about scatter; and ray_color takes its absorption
\* branch (black after a hit, without recursing) only when the struck
\* material is a Metal that absorbed.
C7_MetalAbsorption ==
    /\ MetalRule
    /\ OnlyMetalAbsorbs
    /\ (ReturnedAfterHit /\ ~ret) =>
           (rec.mat_ptr.kind = "metal" /\ color = Vec3_zero)

\* C7's case: a metal whose outgoing direction lies in the tangent plane
\* (dot product exactly 0) absorbed, and ray_color returned black.
C7_Witness ==
    /\ pc = "return"
    /\ rec.mat_ptr.kind = "metal"
    /\ ~ret
    /\ dot(scattered.direction, rec.normal) = Zero
    /\ color = Vec3_zero

\* A scatter call on a material of the given kind has just returned, its
\* ray and record finite and its normal of unit length.
Scattered(kind) ==
    /\ pc = "scattered"
    /\ rec.mat_ptr.kind = kind
    /\ ProperDirection
    /\ length_squared(rec.normal) = One

\* C6: Lambertian scatter returns true with the albedo as attenuation, and
\* the scattered direction is the normal plus one random unit vector,
\* replaced by the normal when that sum is near-zero; so the scattered
\* direction is never near-zero.
C6_AsClaimed ==
    Scattered("lambertian") =>
        LET sum == VAdd(rec.normal, random_unit_vector(pts[1]))
        IN  /\ ret
            /\ attenuation = rec.mat_ptr.albedo
            /\ scattered.direction = (IF near_zero(sum) THEN rec.normal ELSE sum)
            /\ ~near_zero(scattered.direction)

\* C10: the direction a dielectric's scatter gets from refract is
\* perp + parallel with perp = etai_over_etat * (uv + cos_theta * n),
\* cos_theta = min(dot(-uv, n), 1) and parallel = -sqrt(|1 - |perp|^2|) * n,
\* so that dot(parallel, n) <= 0.
C10_AsClaimed ==
    Scattered("dielectric") =>
        LET uv == unit_vector(r.direction)
            n == rec.normal
            etai_over_etat == IF rec.front_face THEN FDiv(One, rec.mat_ptr.ir)
                              ELSE rec.mat_ptr.ir
            cos_theta == FMin(dot(VNeg(uv), n), One)
            perp == VScale(VAdd(uv, VScale(n, cos_theta)), etai_over_etat)
            parallel ==
                VScale(n, FNeg(FSqrt(FAbs(FSub(One, length_squared(perp))))))
        IN  /\ scattered.direction = VAdd(perp, parallel)
            /\ FLe(dot(VSub(scattered.direction, perp), n), Zero)

\* --------------------------------------------- Claims under SpecRender

\* A sample of pixel (i, j) has been taken: u and v are its coordinates.
Sampled == pc = "render" /\ s > 0

\* C9 (as claimed): the jittered coordinates u and v passed to get_ray lie
\* in [0, 1], for every pixel, sample and jitter.
C9_AsClaimed ==
    Sampled => /\ FLe(Zero, u) /\ FLe(u, One)
               /\ FLe(Zero, v) /\ FLe(v, One)

\* C9 (amended): u lies in [0, IMAGE_WIDTH / (IMAGE_WIDTH - 1)] and v in
\* [0, IMAGE_HEIGHT / (IMAGE_HEIGHT - 1)]: in the pixel's footprint
\* [i / (IMAGE_WIDTH - 1), (i + 1) / (IMAGE_WIDTH - 1)] and likewise for v;
\* and the ray get_ray returns points at that place of the viewport.
C9_InFootprint ==
    Sampled =>
        /\ FLe(F(i, IMAGE_WIDTH - 1), u)
        /\ FLe(u, F(i + 1, IMAGE_WIDTH - 1))
        /\ FLe(F(j, IMAGE_HEIGHT - 1), v)
        /\ FLe(v, F(j + 1, IMAGE_HEIGHT - 1))
        /\ FLe(Zero, u) /\ FLe(u, F(IMAGE_WIDTH, IMAGE_WIDTH - 1))
        /\ FLe(Zero, v) /\ FLe(v, F(IMAGE_HEIGHT, IMAGE_HEIGHT - 1))
        /\ r = get_ray(Camera_default_camera, u, v)

\* C9's case: the last column of the bottom scanline sampled with the
\* largest jitter, u at its upper limit and beyond 1.
C9_Witness ==
    /\ Sampled
    /\ i = IMAGE_WIDTH - 1
    /\ j = 0
    /\ u = F(IMAGE_WIDTH, IMAGE_WIDTH - 1)
    /\ FGt(u, One)
    /\ v = Zero

====
